---- MODULE Spec2Model ----
(***************************************************************************)
(* Phase lifecycle of the PHASED framework (mistic96/phased_ui).           *)
(*                                                                         *)
(* One usePhase machine (src/src/phased/index.ts, the usePhase hook) is    *)
(* modelled together with the part of React it depends on:                 *)
(*   - setPhase / setLastTransition enqueue a state value; the component   *)
(*     sees it at the next render;                                         *)
(*   - the "notify" effect runs after the render was committed and is the  *)
(*     only writer of previousPhaseRef;                                    *)
(*   - setTimeout / clearTimeout keep a set of pending timers, any of      *)
(*     which may fire (time is not modelled: the event loop may run the    *)
(*     pending tasks in any order).                                        *)
(* Opacity and relevanceScore are kept in tenths (0.3 is 3, 1 is 10).      *)
(***************************************************************************)
EXTENDS Integers, FiniteSets, Sequences, TLC

\* ---------------------------------------------------------------- bounds
\* number of transitionTo calls (direct or through a wrapper) in one run
MaxRequests == 3

\* number of changes of the isOpen prop of a panel in one run
MaxToggles == 2

\* ------------------------------------------------------------- constants
\* PHASE_DURATION_MS[DEFAULT_ANIMATION_CONFIG.duration], in milliseconds
PHASE_DURATION_MS == 300

\* PHASE_DURATION_MS.slow, the duration PhasedSlidePanel asks for
PANEL_DURATION_MS == 500

\* default of options.surfaceDelay, in milliseconds
surfaceDelay == 0

\* values of options.initialPhase: the default and the one of a component
\* that is created visible
InitialPhases == {"dormant", "surfaced"}

\* type Phase
Phase == {"dormant", "warming", "surfaced", "focused", "dissolving"}

\* type PhaseTransition, with "null" for the null of PhaseTransition | null
PhaseTransition == {"surface", "focus", "blur", "dissolve", "hibernate"}

null == "null"

\* ------------------------------------------------------- pure functions
\* getPhaseOpacity with the dissolving case left to the default
getPhaseOpacity_NoDissolving(p) ==
    CASE p = "dormant"    -> 0
      [] p = "warming"    -> 3
      [] p = "surfaced"   -> 10
      [] p = "focused"    -> 10
      [] OTHER            -> 10

getPhaseOpacity(p) ==
    CASE p = "dormant"    -> 0
      [] p = "warming"    -> 3
      [] p = "surfaced"   -> 10
      [] p = "focused"    -> 10
      [] p = "dissolving" -> 5
      [] OTHER            -> 10

isPhaseInteractive(p) == p = "surfaced" \/ p = "focused" \/ p = "dissolving"

isPhaseVisible(p) == p # "dormant"

\* relevanceScore of the state object built by usePhase
relevanceScore(p) == IF p = "focused" THEN 10 ELSE IF p = "surfaced" THEN 8 ELSE 0

\* the value usePhase returns from one render: phase, state.* and the checks
UsePhaseReturn(p, lt) ==
    [ phase          |-> p,
      opacity        |-> getPhaseOpacity(p),
      relevanceScore |-> relevanceScore(p),
      lastTransition |-> lt,
      isVisible      |-> (p # "dormant"),
      isInteractive  |-> (p = "surfaced" \/ p = "focused" \/ p = "dissolving"),
      isFocused      |-> (p = "focused") ]

\* ----------------------------------------------------------------- state
VARIABLES
    autoSurface,            \* options.autoSurface
    initialPhase,           \* options.initialPhase
    mounted,                \* the component that called usePhase is mounted
    phase,                  \* useState<Phase>: latest value given to setPhase
    lastTransition,         \* useState<PhaseTransition | null>: latest value
    previousPhaseRef,       \* previousPhaseRef.current
    transitionTimeoutRef,   \* transitionTimeoutRef.current (0 is null)
    autoTimer,              \* `timer` of the auto-surface effect (0: none)
    timers,                 \* pending timers of the event loop
    nextId,                 \* next id setTimeout returns
    ret,                    \* what the last render of usePhase returned
    effectPending,          \* a render is committed, its effects have not run
    notified,               \* arguments of the last onPhaseChange call
    unnotified,             \* changes of phase since the last onPhaseChange call
    nRequests,              \* number of transitionTo calls
    lastCall,               \* the last transitionTo call
    rawWarming,             \* transitionTo('warming') was called directly
    ranAfterUnmount         \* a timer callback ran after the unmount

machineVars == << autoSurface, initialPhase, mounted, phase, lastTransition,
                  previousPhaseRef, transitionTimeoutRef, autoTimer, timers,
                  nextId, ret, effectPending, notified, unnotified, nRequests,
                  lastCall, rawWarming, ranAfterUnmount >>

\* ------------------------------------------------- orchestrator registry
\* (src/src/phased/OrchestratorContext.tsx). The provider keeps its state in
\* a reducer; the actions dispatch to it and push to the forensic log. A
\* dispatch that produces a new state object makes the provider render again.
VARIABLES
    state,                  \* OrchestratorState held by useReducer
    forensicLog,            \* the array logForensicEvent pushes to
    exposesLog,             \* the provided forensicEvents is that array
    renderPending,          \* the state changed since the provider rendered
    renderedForensicMode,   \* state.forensicMode as seen by the last render
    now,                    \* Date.now(): a call is made later than the one before
    nActions,               \* number of calls of registry actions
    lastAction              \* the last call of a registry action

regVars == << state, forensicLog, exposesLog, renderPending,
              renderedForensicMode, now, nActions, lastAction >>

\* ------------------------------------------------ a second usePhase machine
\* Every call of usePhase has its own state and refs; the timers of all
\* machines are pending in the same event loop (`timers`) and setTimeout
\* numbers them from one counter (`nextId`).
VARIABLES
    sibling                 \* state and refs of a second usePhase machine

siblingVars == << sibling >>

\* ------------------------------------------------------- PhasedSlidePanel
\* (src/src/components/PhasedSlidePanel.tsx) owns a usePhase machine and
\* follows its isOpen prop with an effect.
VARIABLES
    isOpen,                 \* the isOpen prop of the panel's last render
    synced,                 \* the dependencies the sync effect last ran with
    lastToggle              \* the changes of isOpen: how many, and the phase at the last

panelVars == << isOpen, synced, lastToggle >>

vars == << machineVars, regVars, siblingVars, panelVars >>

\* a second machine that has made no call: initialPhase dormant
SiblingIdle ==
    [ phase |-> "dormant", lastTransition |-> null, previousPhaseRef |-> "dormant",
      transitionTimeoutRef |-> 0, calls |-> 0 ]

\* no second machine and no panel take part in the run
Alone ==
    /\ sibling = SiblingIdle
    /\ isOpen = FALSE
    /\ synced = [ran |-> FALSE, isOpen |-> FALSE, phase |-> "dormant"]
    /\ lastToggle = [n |-> 0, phase |-> "none"]

\* ---------------------------------------------------------- bounds (registry)
\* number of calls of registry actions in one run
MaxActions == 3

\* component ids used by the callers
ComponentIds == {"card-1", "card-2"}

\* an object without keys: {} of Partial<UserContext>
EmptyObject == [k \in {} |-> k]

\* a spread in which the keys of the first object win
Spread_KeepsOld(a, b) ==
    [k \in DOMAIN a \cup DOMAIN b |-> IF k \in DOMAIN a THEN a[k] ELSE b[k]]

\* { ...a, ...b }
Spread(a, b) ==
    [k \in DOMAIN a \cup DOMAIN b |-> IF k \in DOMAIN b THEN b[k] ELSE a[k]]

defaultUserContext ==
    [ userId |-> "demo-user", role |-> "analyst", urgency |-> "normal",
      device |-> "desktop", forensicMode |-> FALSE ]

defaultStatus == [status |-> "idle", message |-> "Ready"]

\* new Map()
EmptyMap == [k \in {} |-> k]

defaultState ==
    [ components |-> EmptyMap, context |-> defaultUserContext,
      systemStatus |-> defaultStatus, forensicMode |-> FALSE ]

\* values of the initialContext prop
InitialContexts ==
    { EmptyObject, [role |-> "manager"], [forensicMode |-> TRUE] }

\* arguments of setContext
ContextUpdates ==
    { EmptyObject, [urgency |-> "critical"], [forensicMode |-> TRUE],
      [role |-> "compliance", urgency |-> "high"] }

\* arguments of setStatus
StatusStates ==
    { defaultStatus, [status |-> "processing", message |-> "Working"] }

\* the `reason` argument of surface
Reasons == {"undefined", "intent"}

\* Map.set / Map.delete on a copy of the map
MapSet(m, k, v) == [x \in DOMAIN m \cup {k} |-> IF x = k THEN v ELSE m[x]]

\* a delete that empties the map
MapDelete_All(m, k) == [x \in {} |-> m[x]]

MapDelete(m, k) == [x \in DOMAIN m \ {k} |-> m[x]]

\* the reducer returns the state object it was given (React then skips the
\* render)
ReturnsSameState(s, a) ==
    \/ a.type = "SET_PHASE" /\ a.componentId \notin DOMAIN s.components
    \/ a.type = "EVALUATE_ALL"

\* a reducer whose SET_PHASE creates an entry for an id it does not know
orchestratorReducer_SetPhaseUpserts(s, a, t) ==
    CASE a.type = "REGISTER_COMPONENT" ->
            [s EXCEPT !.components =
                MapSet(s.components, a.config.id,
                       [ phase |-> "dormant", opacity |-> 0, relevanceScore |-> 0,
                         lastTransition |-> null, transitionTimestamp |-> t ])]
      [] a.type = "UNREGISTER_COMPONENT" ->
            [s EXCEPT !.components = MapDelete(s.components, a.componentId)]
      [] a.type = "SET_PHASE" ->
            [s EXCEPT !.components =
                MapSet(s.components, a.componentId,
                       [ phase |-> a.phase, opacity |-> 0, relevanceScore |-> 0,
                         lastTransition |-> null, transitionTimestamp |-> t ])]
      [] a.type = "SET_CONTEXT" ->
            [s EXCEPT !.context = Spread(s.context, a.updates)]
      [] a.type = "SET_FORENSIC_MODE" ->
            [s EXCEPT !.forensicMode = a.enabled,
                      !.context = Spread(s.context, [forensicMode |-> a.enabled])]
      [] a.type = "SET_STATUS" ->
            [s EXCEPT !.systemStatus = a.status]
      [] OTHER -> s

\* the edges of the transition definitions, as requests of the registry:
\* focus from surfaced, blur from focused, surface from dormant or
\* dissolving, dissolve from surfaced or focused
IsEdge(from, target) ==
    \/ target = "focused" /\ from = "surfaced"
    \/ target = "surfaced" /\ from \in {"dormant", "dissolving", "focused"}
    \/ target = "dissolving" /\ from \in {"surfaced", "focused"}

\* a reducer whose SET_PHASE applies a request only along an edge of the
\* transition definitions
orchestratorReducer_Validating(s, a, t) ==
    CASE a.type = "REGISTER_COMPONENT" ->
            [s EXCEPT !.components =
                MapSet(s.components, a.config.id,
                       [ phase |-> "dormant", opacity |-> 0, relevanceScore |-> 0,
                         lastTransition |-> null, transitionTimestamp |-> t ])]
      [] a.type = "UNREGISTER_COMPONENT" ->
            [s EXCEPT !.components = MapDelete(s.components, a.componentId)]
      [] a.type = "SET_PHASE" ->
            IF a.componentId \notin DOMAIN s.components
            THEN s
            ELSE IF ~IsEdge(s.components[a.componentId].phase, a.phase)
            THEN s
            ELSE [s EXCEPT !.components =
                    MapSet(s.components, a.componentId,
                           [s.components[a.componentId] EXCEPT
                               !.phase = a.phase, !.transitionTimestamp = t])]
      [] a.type = "SET_CONTEXT" ->
            [s EXCEPT !.context = Spread(s.context, a.updates)]
      [] a.type = "SET_FORENSIC_MODE" ->
            [s EXCEPT !.forensicMode = a.enabled,
                      !.context = Spread(s.context, [forensicMode |-> a.enabled])]
      [] a.type = "SET_STATUS" ->
            [s EXCEPT !.systemStatus = a.status]
      [] OTHER -> s

\* a reducer whose REGISTER_COMPONENT keeps the entry of an id it knows
orchestratorReducer_RegisterKeepsExisting(s, a, t) ==
    CASE a.type = "REGISTER_COMPONENT" ->
            IF a.config.id \in DOMAIN s.components
            THEN s
            ELSE [s EXCEPT !.components =
                    MapSet(s.components, a.config.id,
                           [ phase |-> "dormant", opacity |-> 0, relevanceScore |-> 0,
                             lastTransition |-> null, transitionTimestamp |-> t ])]
      [] a.type = "UNREGISTER_COMPONENT" ->
            [s EXCEPT !.components = MapDelete(s.components, a.componentId)]
      [] a.type = "SET_PHASE" ->
            IF a.componentId \notin DOMAIN s.components
            THEN s
            ELSE [s EXCEPT !.components =
                    MapSet(s.components, a.componentId,
                           [s.components[a.componentId] EXCEPT
                               !.phase = a.phase, !.transitionTimestamp = t])]
      [] a.type = "SET_CONTEXT" ->
            [s EXCEPT !.context = Spread(s.context, a.updates)]
      [] a.type = "SET_FORENSIC_MODE" ->
            [s EXCEPT !.forensicMode = a.enabled,
                      !.context = Spread(s.context, [forensicMode |-> a.enabled])]
      [] a.type = "SET_STATUS" ->
            [s EXCEPT !.systemStatus = a.status]
      [] OTHER -> s

\* orchestratorReducer(state, action), with t the value of Date.now()
orchestratorReducer(s, a, t) ==
    CASE a.type = "REGISTER_COMPONENT" ->
            [s EXCEPT !.components =
                MapSet(s.components, a.config.id,
                       [ phase |-> "dormant", opacity |-> 0, relevanceScore |-> 0,
                         lastTransition |-> null, transitionTimestamp |-> t ])]
      [] a.type = "UNREGISTER_COMPONENT" ->
            [s EXCEPT !.components = MapDelete(s.components, a.componentId)]
      [] a.type = "SET_PHASE" ->
            IF a.componentId \notin DOMAIN s.components
            THEN s
            ELSE [s EXCEPT !.components =
                    MapSet(s.components, a.componentId,
                           [s.components[a.componentId] EXCEPT
                               !.phase = a.phase, !.transitionTimestamp = t])]
      [] a.type = "SET_CONTEXT" ->
            [s EXCEPT !.context = Spread(s.context, a.updates)]
      [] a.type = "SET_FORENSIC_MODE" ->
            [s EXCEPT !.forensicMode = a.enabled,
                      !.context = Spread(s.context, [forensicMode |-> a.enabled])]
      [] a.type = "SET_STATUS" ->
            [s EXCEPT !.systemStatus = a.status]
      [] OTHER -> s

NoAction ==
    [ op |-> "none", id |-> "none", registered |-> FALSE, from |-> "none",
      arg |-> "none" ]

\* the provider after its first render, given the initialContext prop
ProviderInit(initialContext) ==
    /\ state = [defaultState EXCEPT
                   !.context = Spread(defaultUserContext, initialContext)]
    /\ forensicLog = << >>
    /\ exposesLog = TRUE
    /\ renderPending = FALSE
    /\ renderedForensicMode = state.forensicMode
    /\ now = 0
    /\ nActions = 0
    /\ lastAction = NoAction

\* setTimeout(() => setPhase(target), delay) as a pending timer
Timer(id, kind, target, delay) ==
    [id |-> id, kind |-> kind, target |-> target, delay |-> delay]

\* a clearTimeout that cancels every pending timer
clearTimeout_AllTimers(ts, id) == {}

\* clearTimeout(id): no effect when no pending timer has that id
clearTimeout(ts, id) == { t \in ts : t.id # id }

NoCall == [name |-> "none", from |-> "none", target |-> "none"]

NoNotification == [phase |-> "none", previousPhase |-> "none"]

\* the mount with an auto-surface effect that does not look at initialPhase
Init_AutoSurfaceFromAnyPhase ==
    /\ autoSurface \in BOOLEAN
    /\ initialPhase \in InitialPhases
    /\ mounted = TRUE
    /\ phase = initialPhase
    /\ lastTransition = null
    /\ previousPhaseRef = initialPhase
    /\ transitionTimeoutRef = 0
    /\ autoTimer = IF autoSurface THEN 1 ELSE 0
    /\ timers = IF autoSurface
                THEN { Timer(1, "autoSurface", "warming", surfaceDelay) }
                ELSE {}
    /\ nextId = IF autoSurface THEN 2 ELSE 1
    /\ ret = UsePhaseReturn(initialPhase, null)
    /\ effectPending = FALSE
    /\ notified = NoNotification
    /\ unnotified = 0
    /\ nRequests = 0
    /\ lastCall = NoCall
    /\ rawWarming = FALSE
    /\ ranAfterUnmount = FALSE
    /\ ProviderInit(EmptyObject)
    /\ Alone

\* the mount: useState / useRef initial values, first render, mount effects
Init ==
    /\ autoSurface \in BOOLEAN
    /\ initialPhase \in InitialPhases
    /\ mounted = TRUE
    /\ phase = initialPhase
    /\ lastTransition = null
    /\ previousPhaseRef = initialPhase
    /\ transitionTimeoutRef = 0
    /\ autoTimer = IF autoSurface /\ initialPhase = "dormant" THEN 1 ELSE 0
    /\ timers = IF autoSurface /\ initialPhase = "dormant"
                THEN { Timer(1, "autoSurface", "warming", surfaceDelay) }
                ELSE {}
    /\ nextId = IF autoSurface /\ initialPhase = "dormant" THEN 2 ELSE 1
    /\ ret = UsePhaseReturn(initialPhase, null)
    /\ effectPending = FALSE
    /\ notified = NoNotification
    /\ unnotified = 0
    /\ nRequests = 0
    /\ lastCall = NoCall
    /\ rawWarming = FALSE
    /\ ranAfterUnmount = FALSE
    /\ ProviderInit(EmptyObject)
    /\ Alone

\* ------------------------------------------------------------ transitionTo
\* transitionTo whose surface branch sets warming without scheduling the
\* advance to surfaced
TransitionBranch_NoWarmingTimer(currentPhase, targetPhase) ==
    IF targetPhase = "surfaced" /\ (currentPhase = "dormant" \/ currentPhase = "dissolving")
    THEN [phase |-> "warming", transition |-> "surface", timer |-> "none", delay |-> 0]
    ELSE IF targetPhase = "focused" /\ currentPhase = "surfaced"
    THEN [phase |-> "focused", transition |-> "focus", timer |-> "none", delay |-> 0]
    ELSE IF targetPhase = "surfaced" /\ currentPhase = "focused"
    THEN [phase |-> "surfaced", transition |-> "blur", timer |-> "none", delay |-> 0]
    ELSE IF targetPhase = "dissolving"
    THEN [phase |-> "dissolving", transition |-> "dissolve", timer |-> "none", delay |-> 0]
    ELSE IF targetPhase = "dormant"
    THEN [phase |-> "dissolving", transition |-> "hibernate", timer |-> "dormant",
          delay |-> PHASE_DURATION_MS]
    ELSE [phase |-> targetPhase, transition |-> "keep", timer |-> "none", delay |-> 0]

\* transitionTo whose hibernate branch records the label of dissolve
TransitionBranch_HibernateAsDissolve(currentPhase, targetPhase) ==
    IF targetPhase = "surfaced" /\ (currentPhase = "dormant" \/ currentPhase = "dissolving")
    THEN [phase |-> "warming", transition |-> "surface", timer |-> "surfaced",
          delay |-> PHASE_DURATION_MS \div 2]
    ELSE IF targetPhase = "focused" /\ currentPhase = "surfaced"
    THEN [phase |-> "focused", transition |-> "focus", timer |-> "none", delay |-> 0]
    ELSE IF targetPhase = "surfaced" /\ currentPhase = "focused"
    THEN [phase |-> "surfaced", transition |-> "blur", timer |-> "none", delay |-> 0]
    ELSE IF targetPhase = "dissolving"
    THEN [phase |-> "dissolving", transition |-> "dissolve", timer |-> "none", delay |-> 0]
    ELSE IF targetPhase = "dormant"
    THEN [phase |-> "dissolving", transition |-> "dissolve", timer |-> "dormant",
          delay |-> PHASE_DURATION_MS]
    ELSE [phase |-> targetPhase, transition |-> "keep", timer |-> "none", delay |-> 0]

\* transitionTo whose hibernate branch waits half the duration only
TransitionBranch_HalfHibernate(currentPhase, targetPhase) ==
    IF targetPhase = "surfaced" /\ (currentPhase = "dormant" \/ currentPhase = "dissolving")
    THEN [phase |-> "warming", transition |-> "surface", timer |-> "surfaced",
          delay |-> PHASE_DURATION_MS \div 2]
    ELSE IF targetPhase = "focused" /\ currentPhase = "surfaced"
    THEN [phase |-> "focused", transition |-> "focus", timer |-> "none", delay |-> 0]
    ELSE IF targetPhase = "surfaced" /\ currentPhase = "focused"
    THEN [phase |-> "surfaced", transition |-> "blur", timer |-> "none", delay |-> 0]
    ELSE IF targetPhase = "dissolving"
    THEN [phase |-> "dissolving", transition |-> "dissolve", timer |-> "none", delay |-> 0]
    ELSE IF targetPhase = "dormant"
    THEN [phase |-> "dissolving", transition |-> "hibernate", timer |-> "dormant",
          delay |-> PHASE_DURATION_MS \div 2]
    ELSE [phase |-> targetPhase, transition |-> "keep", timer |-> "none", delay |-> 0]

\* the branch of transitionTo: what it sets, given the phase it reads
\* (currentPhase) and its argument; timer is "none" or the delayed target
TransitionBranch(currentPhase, targetPhase) ==
    IF targetPhase = "surfaced" /\ (currentPhase = "dormant" \/ currentPhase = "dissolving")
    THEN [phase |-> "warming", transition |-> "surface", timer |-> "surfaced",
          delay |-> PHASE_DURATION_MS \div 2]
    ELSE IF targetPhase = "focused" /\ currentPhase = "surfaced"
    THEN [phase |-> "focused", transition |-> "focus", timer |-> "none", delay |-> 0]
    ELSE IF targetPhase = "surfaced" /\ currentPhase = "focused"
    THEN [phase |-> "surfaced", transition |-> "blur", timer |-> "none", delay |-> 0]
    ELSE IF targetPhase = "dissolving"
    THEN [phase |-> "dissolving", transition |-> "dissolve", timer |-> "none", delay |-> 0]
    ELSE IF targetPhase = "dormant"
    THEN [phase |-> "dissolving", transition |-> "hibernate", timer |-> "dormant",
          delay |-> PHASE_DURATION_MS]
    ELSE [phase |-> targetPhase, transition |-> "keep", timer |-> "none", delay |-> 0]

\* transitionTo without its clearTimeout
ClearPending_Never(ts, ref) == ts

\* the pending timers after transitionTo's "clear any pending transitions"
ClearPending(ts, ref) == IF ref # 0 THEN clearTimeout(ts, ref) ELSE ts

\* transitionTo(targetPhase), called as `name` (a wrapper or transitionTo).
\* currentPhase is previousPhaseRef.current, not the latest phase. Calls are
\* made by the owner of the hook while it is mounted.
transitionToCall(name, targetPhase) ==
    LET b == TransitionBranch(previousPhaseRef, targetPhase)
        cleared == ClearPending(timers, transitionTimeoutRef)
    IN  /\ mounted
        /\ phase' = b.phase
        /\ lastTransition' = IF b.transition = "keep" THEN lastTransition ELSE b.transition
        /\ IF b.timer = "none"
           THEN /\ timers' = cleared
                /\ UNCHANGED << transitionTimeoutRef, nextId >>
           ELSE /\ timers' = cleared \cup { Timer(nextId, "transition", b.timer, b.delay) }
                /\ transitionTimeoutRef' = nextId
                /\ nextId' = nextId + 1
        /\ unnotified' = IF b.phase # phase THEN unnotified + 1 ELSE unnotified
        /\ nRequests' = nRequests + 1
        /\ lastCall' = [name |-> name, from |-> phase, target |-> targetPhase]
        /\ rawWarming' = (rawWarming \/ targetPhase = "warming")
        /\ UNCHANGED << autoSurface, initialPhase, mounted, previousPhaseRef,
                        autoTimer, ret, effectPending, notified, ranAfterUnmount >>
        /\ UNCHANGED << regVars, siblingVars, panelVars >>

\* a transitionTo call of a run with at most MaxRequests calls
transitionTo(name, targetPhase) ==
    /\ nRequests < MaxRequests
    /\ transitionToCall(name, targetPhase)

surface == transitionTo("surface", "surfaced")

dissolve == transitionTo("dissolve", "dissolving")

focus == transitionTo("focus", "focused")

blur == transitionTo("blur", "surfaced")

hibernate == transitionTo("hibernate", "dormant")

\* transitionTo called directly by the owner of the hook
TransitionToDirect == \E t \in Phase : transitionTo("transitionTo", t)

\* ------------------------------------------------------------------ timers
\* setPhase(p) in a timer callback: ignored once the component is unmounted
SetPhaseFromTimer(p) ==
    /\ phase' = IF mounted THEN p ELSE phase
    /\ unnotified' = IF mounted /\ p # phase THEN unnotified + 1 ELSE unnotified
    /\ ranAfterUnmount' = (ranAfterUnmount \/ ~mounted)

\* the timer set by transitionTo fires
TransitionTimerFires ==
    \E t \in timers :
        /\ t.kind = "transition"
        /\ timers' = timers \ {t}
        /\ SetPhaseFromTimer(t.target)
        /\ UNCHANGED << autoSurface, initialPhase, mounted, lastTransition,
                        previousPhaseRef, transitionTimeoutRef, autoTimer,
                        nextId, ret, effectPending, notified,
                        nRequests, lastCall, rawWarming >>
        /\ UNCHANGED << regVars, siblingVars, panelVars >>

\* the timer of the auto-surface effect fires: warming, then a second timer
AutoSurfaceTimerFires ==
    \E t \in timers :
        /\ t.kind = "autoSurface"
        /\ timers' = (timers \ {t}) \cup
                     { Timer(nextId, "autoWarming", "surfaced", PHASE_DURATION_MS \div 2) }
        /\ nextId' = nextId + 1
        /\ SetPhaseFromTimer("warming")
        /\ UNCHANGED << autoSurface, initialPhase, mounted, lastTransition,
                        previousPhaseRef, transitionTimeoutRef, autoTimer,
                        ret, effectPending, notified,
                        nRequests, lastCall, rawWarming >>
        /\ UNCHANGED << regVars, siblingVars, panelVars >>

\* the inner timer of the auto-surface effect fires
AutoWarmingTimerFires ==
    \E t \in timers :
        /\ t.kind = "autoWarming"
        /\ timers' = timers \ {t}
        /\ SetPhaseFromTimer(t.target)
        /\ UNCHANGED << autoSurface, initialPhase, mounted, lastTransition,
                        previousPhaseRef, transitionTimeoutRef, autoTimer,
                        nextId, ret, effectPending, notified,
                        nRequests, lastCall, rawWarming >>
        /\ UNCHANGED << regVars, siblingVars, panelVars >>

\* ------------------------------------------------------------------- React
\* React renders the component with the latest state values
Render ==
    /\ mounted
    /\ ~effectPending
    /\ (phase # ret.phase \/ lastTransition # ret.lastTransition)
    /\ ret' = UsePhaseReturn(phase, lastTransition)
    /\ effectPending' = TRUE
    /\ UNCHANGED << autoSurface, initialPhase, mounted, phase, lastTransition,
                    previousPhaseRef, transitionTimeoutRef, autoTimer, timers,
                    nextId, notified, unnotified, nRequests, lastCall,
                    rawWarming, ranAfterUnmount >>
    /\ UNCHANGED << regVars, siblingVars, panelVars >>

\* the "notify on phase change" effect of the committed render
NotifyEffect ==
    /\ mounted
    /\ effectPending
    /\ effectPending' = FALSE
    /\ IF ret.phase # previousPhaseRef
       THEN /\ notified' = [phase |-> ret.phase, previousPhase |-> previousPhaseRef]
            /\ unnotified' = 0
            /\ previousPhaseRef' = ret.phase
       ELSE UNCHANGED << notified, unnotified, previousPhaseRef >>
    /\ UNCHANGED << autoSurface, initialPhase, mounted, phase, lastTransition,
                    transitionTimeoutRef, autoTimer, timers, nextId, ret,
                    nRequests, lastCall, rawWarming, ranAfterUnmount >>
    /\ UNCHANGED << regVars, siblingVars, panelVars >>

\* the effect cleanups at unmount: clearTimeout of the transition timer and
\* of the auto-surface effect's `timer` (React runs the pending effects of a
\* committed render before it unmounts the component)
Unmount ==
    /\ mounted
    /\ ~effectPending
    /\ mounted' = FALSE
    /\ timers' = LET t1 == ClearPending(timers, transitionTimeoutRef)
                 IN  IF autoTimer # 0 THEN clearTimeout(t1, autoTimer) ELSE t1
    /\ UNCHANGED << autoSurface, initialPhase, phase, lastTransition,
                    previousPhaseRef, transitionTimeoutRef, autoTimer, nextId,
                    ret, effectPending, notified, unnotified, nRequests,
                    lastCall, rawWarming, ranAfterUnmount >>
    /\ UNCHANGED << regVars, siblingVars, panelVars >>

Next ==
    \/ surface
    \/ dissolve
    \/ focus
    \/ blur
    \/ hibernate
    \/ TransitionToDirect
    \/ TransitionTimerFires
    \/ AutoSurfaceTimerFires
    \/ AutoWarmingTimerFires
    \/ Render
    \/ NotifyEffect
    \/ Unmount

Spec == Init /\ [][Next]_vars

\* ------------------------------------------------------ registry actions
\* dispatch(action): the reducer runs on the latest state; React renders the
\* provider again unless the reducer returned the same state object
Dispatch(a) ==
    /\ state' = orchestratorReducer(state, a, now)
    /\ renderPending' = (renderPending \/ ~ReturnsSameState(state, a))

\* a logForensicEvent that drops the event
logForensicEvent_Dropped(eventType, componentId, details) ==
    forensicLog' = forensicLog

\* logForensicEvent(event): id is a fresh UUID (here the position in the
\* log), timestamp is Date.now()
logForensicEvent(eventType, componentId, details) ==
    forensicLog' = Append(forensicLog,
                          [ id |-> Len(forensicLog) + 1, timestamp |-> now,
                            eventType |-> eventType, componentId |-> componentId,
                            details |-> details ])

\* what every call of a registry action records and leaves alone
Called(op, id, arg) ==
    /\ nActions < MaxActions
    /\ nActions' = nActions + 1
    /\ lastAction' =
          [ op |-> op, id |-> id,
            registered |-> (id \in DOMAIN state.components),
            from |-> IF id \in DOMAIN state.components
                     THEN state.components[id].phase ELSE "none",
            arg |-> arg ]
    /\ now' = now + 1
    /\ UNCHANGED << exposesLog, renderedForensicMode >>
    /\ UNCHANGED << machineVars, siblingVars, panelVars >>

\* a surface that stores warming first, as the usePhase machine does
actions_surface_ThroughWarming ==
    \E componentId \in ComponentIds, reason \in Reasons :
        /\ Dispatch([type |-> "SET_PHASE", componentId |-> componentId,
                     phase |-> "warming", reason |-> reason])
        /\ logForensicEvent("phase_transition", componentId,
                            [phase |-> "warming", reason |-> reason])
        /\ Called("surface", componentId, reason)

actions_surface ==
    \E componentId \in ComponentIds, reason \in Reasons :
        /\ Dispatch([type |-> "SET_PHASE", componentId |-> componentId,
                     phase |-> "surfaced", reason |-> reason])
        /\ logForensicEvent("phase_transition", componentId,
                            [phase |-> "surfaced", reason |-> reason])
        /\ Called("surface", componentId, reason)

actions_dissolve ==
    \E componentId \in ComponentIds :
        /\ Dispatch([type |-> "SET_PHASE", componentId |-> componentId,
                     phase |-> "dissolving"])
        /\ logForensicEvent("phase_transition", componentId,
                            [phase |-> "dissolving"])
        /\ Called("dissolve", componentId, "none")

actions_focus ==
    \E componentId \in ComponentIds :
        /\ Dispatch([type |-> "SET_PHASE", componentId |-> componentId,
                     phase |-> "focused"])
        /\ logForensicEvent("phase_transition", componentId,
                            [phase |-> "focused"])
        /\ Called("focus", componentId, "none")

actions_blur ==
    \E componentId \in ComponentIds :
        /\ Dispatch([type |-> "SET_PHASE", componentId |-> componentId,
                     phase |-> "surfaced"])
        /\ logForensicEvent("phase_transition", componentId,
                            [phase |-> "surfaced", from |-> "focused"])
        /\ Called("blur", componentId, "none")

actions_setContext ==
    \E updates \in ContextUpdates :
        /\ Dispatch([type |-> "SET_CONTEXT", updates |-> updates])
        /\ logForensicEvent("system_event", "undefined",
                            [action |-> "context_update", updates |-> updates])
        /\ Called("setContext", "none", updates)

actions_setForensicMode ==
    \E enabled \in BOOLEAN :
        /\ Dispatch([type |-> "SET_FORENSIC_MODE", enabled |-> enabled])
        /\ logForensicEvent("system_event", "undefined",
                            [action |-> "forensic_mode", enabled |-> enabled])
        /\ Called("setForensicMode", "none", enabled)

\* useForensicMode().toggle: setForensicMode(!state.forensicMode), with the
\* state of the render that made the function
useForensicMode_toggle ==
    /\ Dispatch([type |-> "SET_FORENSIC_MODE", enabled |-> ~renderedForensicMode])
    /\ logForensicEvent("system_event", "undefined",
                        [action |-> "forensic_mode", enabled |-> ~renderedForensicMode])
    /\ Called("toggle", "none",
              [top |-> state.forensicMode, mirror |-> state.context.forensicMode])

\* a setStatus that logs a system_event
actions_setStatus_Logged ==
    \E status \in StatusStates :
        /\ Dispatch([type |-> "SET_STATUS", status |-> status])
        /\ logForensicEvent("system_event", "undefined",
                            [action |-> "status", status |-> status])
        /\ Called("setStatus", "none", status)

actions_setStatus ==
    \E status \in StatusStates :
        /\ Dispatch([type |-> "SET_STATUS", status |-> status])
        /\ UNCHANGED forensicLog
        /\ Called("setStatus", "none", status)

actions_registerComponent ==
    \E id \in ComponentIds :
        /\ Dispatch([type |-> "REGISTER_COMPONENT", config |-> [id |-> id]])
        /\ UNCHANGED forensicLog
        /\ Called("registerComponent", id, "none")

actions_unregisterComponent ==
    \E componentId \in ComponentIds :
        /\ Dispatch([type |-> "UNREGISTER_COMPONENT", componentId |-> componentId])
        /\ UNCHANGED forensicLog
        /\ Called("unregisterComponent", componentId, "none")

actions_evaluateAll ==
    /\ Dispatch([type |-> "EVALUATE_ALL"])
    /\ UNCHANGED forensicLog
    /\ Called("evaluateAll", "none", "none")

\* the provider renders again: `const forensicEvents = []` makes a new array
\* for the context value, while logForensicEvent (useCallback with no
\* dependencies) keeps pushing to the array of the first render
ProviderRender ==
    /\ renderPending
    /\ renderPending' = FALSE
    /\ exposesLog' = FALSE
    /\ renderedForensicMode' = state.forensicMode
    /\ UNCHANGED << state, forensicLog, now, nActions, lastAction >>
    /\ UNCHANGED << machineVars, siblingVars, panelVars >>

\* the forensicEvents of the context value (useForensicMode().events)
forensicEvents == IF exposesLog THEN forensicLog ELSE << >>

\* no usePhase machine takes part in the runs of the registry
NoMachine ==
    /\ autoSurface = FALSE
    /\ initialPhase = "dormant"
    /\ mounted = TRUE
    /\ phase = "dormant"
    /\ lastTransition = null
    /\ previousPhaseRef = "dormant"
    /\ transitionTimeoutRef = 0
    /\ autoTimer = 0
    /\ timers = {}
    /\ nextId = 1
    /\ ret = UsePhaseReturn("dormant", null)
    /\ effectPending = FALSE
    /\ notified = NoNotification
    /\ unnotified = 0
    /\ nRequests = 0
    /\ lastCall = NoCall
    /\ rawWarming = FALSE
    /\ ranAfterUnmount = FALSE

RegistryInit ==
    /\ NoMachine
    /\ Alone
    /\ \E initialContext \in InitialContexts : ProviderInit(initialContext)

RegistryNext ==
    \/ actions_surface
    \/ actions_dissolve
    \/ actions_focus
    \/ actions_blur
    \/ actions_setContext
    \/ actions_setForensicMode
    \/ actions_setStatus
    \/ actions_registerComponent
    \/ actions_unregisterComponent
    \/ useForensicMode_toggle
    \/ actions_evaluateAll
    \/ ProviderRender

RegistrySpec == RegistryInit /\ [][RegistryNext]_vars

\* ------------------------------------------------------------------ hooks
\* useContext(OrchestratorContext) in a component: the value of the
\* enclosing provider, or the default of createContext, null
useContext(insideProvider) ==
    IF insideProvider
    THEN [isNull |-> FALSE, state |-> state, forensicEvents |-> forensicEvents]
    ELSE [isNull |-> TRUE]

\* a useOrchestrator that throws whatever the context is
useOrchestrator_AlwaysThrows(context) ==
    [ threw |-> TRUE,
      message |-> "useOrchestrator must be used within an OrchestratorProvider" ]

\* useOrchestrator, given the value of useContext: throws on null
useOrchestrator(context) ==
    IF context.isNull
    THEN [ threw |-> TRUE,
           message |-> "useOrchestrator must be used within an OrchestratorProvider" ]
    ELSE [ threw |-> FALSE, value |-> context ]

useSystemStatus(context) ==
    LET o == useOrchestrator(context)
    IN  IF o.threw THEN o
        ELSE [threw |-> FALSE, value |-> [status |-> o.value.state.systemStatus]]

useForensicMode(context) ==
    LET o == useOrchestrator(context)
    IN  IF o.threw THEN o
        ELSE [ threw |-> FALSE,
               value |-> [ isForensic |-> o.value.state.forensicMode,
                           events |-> o.value.forensicEvents ] ]

useUserContext(context) ==
    LET o == useOrchestrator(context)
    IN  IF o.threw THEN o
        ELSE [threw |-> FALSE, value |-> [context |-> o.value.state.context]]

\* a component calls a hook while it renders, inside or outside a provider;
\* inside, it renders with the value of the provider's latest render
HookCalled(hook, insideProvider, result) ==
    /\ nActions < MaxActions
    /\ insideProvider => ~renderPending
    /\ nActions' = nActions + 1
    /\ lastAction' = [ op |-> hook, id |-> "none", registered |-> FALSE,
                       from |-> "none",
                       arg |-> [insideProvider |-> insideProvider, result |-> result] ]
    /\ UNCHANGED << state, forensicLog, exposesLog, renderPending,
                    renderedForensicMode, now >>
    /\ UNCHANGED << machineVars, siblingVars, panelVars >>

CallsUseOrchestrator ==
    \E insideProvider \in BOOLEAN :
        HookCalled("useOrchestrator", insideProvider,
                   useOrchestrator(useContext(insideProvider)))

CallsUseSystemStatus ==
    \E insideProvider \in BOOLEAN :
        HookCalled("useSystemStatus", insideProvider,
                   useSystemStatus(useContext(insideProvider)))

CallsUseForensicMode ==
    \E insideProvider \in BOOLEAN :
        HookCalled("useForensicMode", insideProvider,
                   useForensicMode(useContext(insideProvider)))

CallsUseUserContext ==
    \E insideProvider \in BOOLEAN :
        HookCalled("useUserContext", insideProvider,
                   useUserContext(useContext(insideProvider)))

\* components that call the hooks, next to callers of the actions whose
\* results the hooks return
HookNext ==
    \/ CallsUseOrchestrator
    \/ CallsUseSystemStatus
    \/ CallsUseForensicMode
    \/ CallsUseUserContext
    \/ actions_setContext
    \/ actions_setForensicMode
    \/ actions_setStatus
    \/ ProviderRender

HookSpec == RegistryInit /\ [][HookNext]_vars

\* --------------------------------------------------- two machines at once
\* transitionTo(targetPhase) of the second machine: the same function on
\* the state and refs of its own usePhase call
Sibling_transitionTo ==
    \E targetPhase \in {"surfaced", "focused", "dissolving", "dormant"} :
        LET b == TransitionBranch(sibling.previousPhaseRef, targetPhase)
            cleared == ClearPending(timers, sibling.transitionTimeoutRef)
        IN  /\ sibling' =
                  [sibling EXCEPT
                      !.phase = b.phase,
                      !.lastTransition = IF b.transition = "keep" THEN @ ELSE b.transition,
                      !.transitionTimeoutRef = IF b.timer = "none" THEN @ ELSE nextId,
                      !.calls = @ + 1]
            /\ IF b.timer = "none"
               THEN /\ timers' = cleared
                    /\ UNCHANGED nextId
               ELSE /\ timers' = cleared \cup
                                 { Timer(nextId, "siblingTransition", b.timer, b.delay) }
                    /\ nextId' = nextId + 1
            /\ UNCHANGED << autoSurface, initialPhase, mounted, phase, lastTransition,
                            previousPhaseRef, transitionTimeoutRef, autoTimer, ret,
                            effectPending, notified, unnotified, nRequests,
                            lastCall, rawWarming, ranAfterUnmount >>
            /\ UNCHANGED << regVars, panelVars >>

\* the timer set by the second machine's transitionTo fires
SiblingTimerFires ==
    \E t \in timers :
        /\ t.kind = "siblingTransition"
        /\ timers' = timers \ {t}
        /\ sibling' = [sibling EXCEPT !.phase = t.target]
        /\ UNCHANGED << autoSurface, initialPhase, mounted, phase, lastTransition,
                        previousPhaseRef, transitionTimeoutRef, autoTimer, nextId,
                        ret, effectPending, notified, unnotified, nRequests,
                        lastCall, rawWarming, ranAfterUnmount >>
        /\ UNCHANGED << regVars, panelVars >>

\* the second machine renders and its notify effect records the phase
SiblingCommit ==
    /\ sibling.previousPhaseRef # sibling.phase
    /\ sibling' = [sibling EXCEPT !.previousPhaseRef = sibling.phase]
    /\ UNCHANGED << machineVars, regVars, panelVars >>

\* the callers make at most MaxRequests calls between them
WithinCalls == nRequests + sibling.calls + nActions < MaxRequests

IndependenceInit ==
    /\ NoMachine
    /\ Alone
    /\ ProviderInit(EmptyObject)

\* two usePhase machines and the registry side by side
IndependenceNext ==
    \/ WithinCalls /\ surface
    \/ WithinCalls /\ dissolve
    \/ WithinCalls /\ focus
    \/ WithinCalls /\ blur
    \/ WithinCalls /\ hibernate
    \/ TransitionTimerFires
    \/ Render
    \/ NotifyEffect
    \/ WithinCalls /\ Sibling_transitionTo
    \/ SiblingTimerFires
    \/ SiblingCommit
    \/ WithinCalls /\ actions_surface
    \/ WithinCalls /\ actions_dissolve
    \/ WithinCalls /\ actions_focus
    \/ WithinCalls /\ actions_blur
    \/ WithinCalls /\ actions_registerComponent
    \/ WithinCalls /\ actions_unregisterComponent
    \/ ProviderRender

IndependenceSpec == IndependenceInit /\ [][IndependenceNext]_vars

\* ------------------------------------------------------- PhasedSlidePanel
\* the delay of a timer when the duration is slow instead of normal
PanelDelay(delay) == (delay * PANEL_DURATION_MS) \div PHASE_DURATION_MS

\* what the sync effect asks for, given the isOpen and phase of its render:
\* surface() (target surfaced), hibernate() (target dormant) or nothing
SyncTarget_OnlyFromSurfaced(open, renderedPhase) ==
    IF open /\ renderedPhase = "dormant" THEN "surfaced"
    ELSE IF ~open /\ renderedPhase = "surfaced" THEN "dormant"
    ELSE "none"

SyncTarget(open, renderedPhase) ==
    IF open /\ renderedPhase = "dormant" THEN "surfaced"
    ELSE IF ~open /\ renderedPhase \in {"surfaced", "focused", "warming"} THEN "dormant"
    ELSE "none"

\* the panel is mounted with isOpen true or false; the effects of its first
\* render have not run yet
PanelInit ==
    /\ autoSurface = FALSE
    /\ initialPhase = "dormant"
    /\ mounted = TRUE
    /\ phase = "dormant"
    /\ lastTransition = null
    /\ previousPhaseRef = "dormant"
    /\ transitionTimeoutRef = 0
    /\ autoTimer = 0
    /\ timers = {}
    /\ nextId = 1
    /\ ret = UsePhaseReturn("dormant", null)
    /\ effectPending = TRUE
    /\ notified = NoNotification
    /\ unnotified = 0
    /\ nRequests = 0
    /\ lastCall = NoCall
    /\ rawWarming = FALSE
    /\ ranAfterUnmount = FALSE
    /\ ProviderInit(EmptyObject)
    /\ sibling = SiblingIdle
    /\ isOpen \in BOOLEAN
    /\ synced = [ran |-> FALSE, isOpen |-> FALSE, phase |-> "dormant"]
    /\ lastToggle = [n |-> 0, phase |-> "none"]

\* the parent renders the panel with the other value of isOpen (React runs
\* the pending effects of the previous render first)
SetIsOpen ==
    /\ mounted
    /\ ~effectPending
    /\ lastToggle.n < MaxToggles
    /\ isOpen' = ~isOpen
    /\ lastToggle' = [n |-> lastToggle.n + 1, phase |-> phase]
    /\ ret' = UsePhaseReturn(phase, lastTransition)
    /\ effectPending' = TRUE
    /\ UNCHANGED << autoSurface, initialPhase, mounted, phase, lastTransition,
                    previousPhaseRef, transitionTimeoutRef, autoTimer, timers,
                    nextId, notified, unnotified, nRequests, lastCall,
                    rawWarming, ranAfterUnmount >>
    /\ UNCHANGED << regVars, siblingVars, synced >>

\* the effects of a committed render of the panel, in one flush: the notify
\* effect of usePhase, then the sync effect when isOpen or the rendered
\* phase differ from its last run. The sync effect calls surface() or
\* hibernate(); transitionTo then reads the ref the notify effect has just
\* written. (These calls are not counted in nRequests, which bounds the
\* calls of the event handlers.)
PanelEffects ==
    LET deps == [ran |-> TRUE, isOpen |-> isOpen, phase |-> ret.phase]
        target == IF synced = deps THEN "none" ELSE SyncTarget(isOpen, ret.phase)
        b == TransitionBranch(ret.phase, target)
        cleared == ClearPending(timers, transitionTimeoutRef)
        seen == IF ret.phase # previousPhaseRef THEN 0 ELSE unnotified
    IN  /\ mounted
        /\ effectPending
        /\ effectPending' = FALSE
        /\ previousPhaseRef' = ret.phase
        /\ notified' = IF ret.phase # previousPhaseRef
                       THEN [phase |-> ret.phase, previousPhase |-> previousPhaseRef]
                       ELSE notified
        /\ synced' = deps
        /\ IF target = "none"
           THEN /\ unnotified' = seen
                /\ UNCHANGED << phase, lastTransition, timers,
                                transitionTimeoutRef, nextId >>
           ELSE /\ phase' = b.phase
                /\ lastTransition' = IF b.transition = "keep"
                                     THEN lastTransition ELSE b.transition
                /\ IF b.timer = "none"
                   THEN /\ timers' = cleared
                        /\ UNCHANGED << transitionTimeoutRef, nextId >>
                   ELSE /\ timers' = cleared \cup
                               { Timer(nextId, "transition", b.timer, PanelDelay(b.delay)) }
                        /\ transitionTimeoutRef' = nextId
                        /\ nextId' = nextId + 1
                /\ unnotified' = IF b.phase # phase THEN seen + 1 ELSE seen
        /\ UNCHANGED << autoSurface, initialPhase, mounted, autoTimer, ret,
                        nRequests, lastCall, rawWarming, ranAfterUnmount >>
        /\ UNCHANGED << regVars, siblingVars, isOpen, lastToggle >>

\* handleContentFocus / handleContentBlur of the rendered panel: they look
\* at the phase of the render that made them (the panel attaches only the
\* focus handler, line 204; the blur handler is taken as attached too)
handleContentFocus ==
    /\ ret.isVisible
    /\ ret.phase = "surfaced"
    /\ transitionTo("focus", "focused")

handleContentBlur ==
    /\ ret.isVisible
    /\ ret.phase = "focused"
    /\ transitionTo("blur", "surfaced")

PanelNext ==
    \/ SetIsOpen
    \/ PanelEffects
    \/ Render
    \/ TransitionTimerFires
    \/ handleContentFocus
    \/ handleContentBlur

PanelSpec == PanelInit /\ [][PanelNext]_vars

\* a pending timer fires, a pending render and its effects run
PanelFairSpec ==
    /\ PanelSpec
    /\ WF_vars(TransitionTimerFires)
    /\ WF_vars(Render)
    /\ WF_vars(PanelEffects)

\* the fairness the event loop and React give: a pending timer fires, a
\* pending render and its effects run; requests and the unmount are up to
\* the owner of the hook
FairSpec ==
    /\ Spec
    /\ WF_vars(TransitionTimerFires)
    /\ WF_vars(AutoSurfaceTimerFires)
    /\ WF_vars(AutoWarmingTimerFires)
    /\ WF_vars(Render)
    /\ WF_vars(NotifyEffect)

\* ------------------------------------------------------------------ claims
\* this step is a transitionTo call
IsRequest == nRequests' = nRequests + 1

\* the pending timers that transitionTo scheduled
TransitionTimers == { t \in timers : t.kind = "transition" }

\* C1: last request wins among the timers of transitionTo: at most one of
\* them is pending and it is the one of the latest call that scheduled one
\* (the one transitionTimeoutRef names), so a superseded timer cannot fire;
\* after dissolve() no transitionTo timer is pending at all, and on a machine
\* without auto-surface the phase is and stays dissolving.
C1_LastRequestWins ==
    /\ Cardinality(TransitionTimers) <= 1
    /\ \A t \in TransitionTimers : t.id = transitionTimeoutRef
    /\ lastCall.name = "dissolve" => TransitionTimers = {}
    /\ (lastCall.name = "dissolve" /\ autoTimer = 0) => phase = "dissolving"

\* surface() then dissolve() before the warming timer fired: the timer is
\* cancelled (its id is still in the ref) and the phase is dissolving
C1_Witness ==
    /\ autoTimer = 0
    /\ lastCall = [name |-> "dissolve", from |-> "warming", target |-> "dissolving"]
    /\ transitionTimeoutRef # 0
    /\ timers = {}
    /\ phase = "dissolving"

\* the transition table as the specification states it: the immediate effect
\* of a request with target tgt on a machine whose phase is cur
ClaimedEffect(cur, tgt) ==
    CASE tgt = "surfaced" /\ cur \in {"dormant", "dissolving"} ->
            [phase |-> "warming", label |-> "surface", timer |-> "surfaced"]
      [] tgt = "focused" /\ cur = "surfaced" ->
            [phase |-> "focused", label |-> "focus", timer |-> "none"]
      [] tgt = "surfaced" /\ cur = "focused" ->
            [phase |-> "surfaced", label |-> "blur", timer |-> "none"]
      [] tgt = "dissolving" ->
            [phase |-> "dissolving", label |-> "dissolve", timer |-> "none"]
      [] tgt = "dormant" ->
            [phase |-> "dissolving", label |-> "hibernate", timer |-> "dormant"]
      [] OTHER ->
            [phase |-> tgt, label |-> "any", timer |-> "none"]

\* C2: every transitionTo call has the effect the transition table gives for
\* the pair (phase of the machine at the call, target): the new phase, the
\* label in lastTransition, and the timer it leaves pending (none, or exactly
\* one timer to the delayed target).
C2_TransitionTable ==
    [][ IsRequest =>
          LET e == ClaimedEffect(phase, lastCall'.target)
              ts == { t \in timers' : t.kind = "transition" }
          IN  /\ phase' = e.phase
              /\ e.label # "any" => lastTransition' = e.label
              /\ e.timer = "none" => ts = {}
              /\ e.timer # "none" =>
                    /\ Cardinality(ts) = 1
                    /\ \A t \in ts : t.target = e.timer /\ t.id = nextId ]_vars

\* this step fires (or cancels) a timer of the auto-surface sequence
IsAutoTimerStep ==
    \E t \in timers : t.kind \in {"autoSurface", "autoWarming"} /\ t \notin timers'

\* C3: once a transitionTo request has been issued, no timer of the
\* auto-surface sequence changes the phase.
C3_RequestBeatsAutoSurface ==
    [][ (nRequests > 0 /\ IsAutoTimerStep) => phase' = phase ]_vars

\* C4: after the unmount no timer of the machine is pending and no timer
\* callback of the machine has run.
C4_TeardownCancelsTimers ==
    ~mounted => (timers = {} /\ ~ranAfterUnmount)

\* C5: after surface() on a machine in dormant (which sets warming), until
\* the next request the phase changes only from warming to surfaced
\* (opacity 0.3 to 1): nothing else happens in between, and surfaced stays.
C5_SurfaceCompletes ==
    [][ (~IsRequest /\ lastCall.name = "surface" /\ lastCall.from = "dormant"
            /\ phase' # phase)
        => (phase = "warming" /\ getPhaseOpacity(phase) = 3
              /\ phase' = "surfaced" /\ getPhaseOpacity(phase') = 10) ]_vars

\* C6: hibernate() sets dissolving at once; until the next request the only
\* change of phase is dissolving -> dormant.
C6_HibernateCompletes ==
    [][ /\ (IsRequest /\ lastCall'.name = "hibernate") => phase' = "dissolving"
        /\ (~IsRequest /\ lastCall.name = "hibernate" /\ phase' # phase)
              => (phase = "dissolving" /\ phase' = "dormant") ]_vars

\* C7: a mounted machine in dissolving returns to dormant if no further
\* request is issued.
C7_DissolvingReturnsToDormant ==
    \A n \in 0..MaxRequests :
        (mounted /\ phase = "dissolving" /\ nRequests = n)
            ~> (phase = "dormant" \/ nRequests # n \/ ~mounted)

\* C7 as amended: only hibernate() leads back to dormant. While a mounted
\* machine is in dissolving after hibernate(), and until a further request,
\* its full-duration timer to dormant is pending, and when that timer fires
\* the phase is dormant; after dissolve() no advance to dormant is pending
\* and the phase is not dormant before a further request.
C7_HibernateReturnsToDormant ==
    /\ []((mounted /\ lastCall.name = "hibernate" /\ phase = "dissolving") =>
              \E t \in timers : /\ t.id = transitionTimeoutRef
                                /\ t.target = "dormant"
                                /\ t.delay = PHASE_DURATION_MS)
    /\ [][ (mounted /\ \E t \in timers : t.target = "dormant" /\ t \notin timers'
              /\ ~IsRequest /\ mounted')
           => phase' = "dormant" ]_vars
    /\ [](lastCall.name = "dissolve" =>
              (phase # "dormant" /\ \A t \in timers : t.target # "dormant"))

\* hibernate() was the last request and its timer has brought the machine
\* back to dormant
C7_Witness ==
    /\ lastCall.name = "hibernate"
    /\ lastCall.from = "surfaced"
    /\ phase = "dormant"
    /\ timers = {}
    /\ mounted

\* C8: on a mounted machine created at dormant and driven by the wrappers
\* only, warming always has a pending advance to surfaced; so with no timer
\* pending the phase is dormant, surfaced, focused or dissolving.
C8_SettledPhase ==
    (initialPhase = "dormant" /\ ~rawWarming /\ mounted) =>
        /\ phase \in Phase
        /\ phase = "warming" => \E t \in timers : t.target = "surfaced"
        /\ timers = {} => phase \in {"dormant", "surfaced", "focused", "dissolving"}

\* an auto-surfacing machine that took requests and has settled in surfaced
C8_Witness ==
    /\ initialPhase = "dormant"
    /\ autoSurface
    /\ ~rawWarming
    /\ mounted
    /\ nRequests >= 2
    /\ lastCall.name = "surface"
    /\ lastCall.from = "dissolving"
    /\ timers = {}
    /\ phase = "surfaced"

\* React has nothing left to do for this machine
Quiescent == mounted /\ phase = ret.phase /\ ~effectPending

\* C9: onPhaseChange is called once for every change of phase: each call
\* reports exactly one change, with arguments (new, previous) that differ and
\* chain with the preceding call, and no change is left unreported once the
\* render and its effect have run.
C9_NotifiesEveryChange ==
    [][ /\ (notified' # notified) =>
              /\ unnotified = 1
              /\ notified'.phase # notified'.previousPhase
              /\ notified'.previousPhase =
                    (IF notified = NoNotification THEN initialPhase ELSE notified.phase)
        /\ Quiescent' => unnotified' = 0 ]_vars

\* C10: what usePhase returns is a function of the phase it rendered:
\* opacity 0 / 0.3 / 1 / 1 / 0.5, relevanceScore 1 / 0.8 / 0, the three
\* checks, and the same values as getPhaseOpacity, isPhaseVisible and
\* isPhaseInteractive give.
C10_DerivedFields ==
    /\ ret.phase \in Phase
    /\ ret.opacity = (CASE ret.phase = "dormant"    -> 0
                        [] ret.phase = "warming"    -> 3
                        [] ret.phase = "surfaced"   -> 10
                        [] ret.phase = "focused"    -> 10
                        [] ret.phase = "dissolving" -> 5)
    /\ ret.relevanceScore = (CASE ret.phase = "focused"  -> 10
                               [] ret.phase = "surfaced" -> 8
                               [] OTHER                  -> 0)
    /\ ret.isVisible = (ret.phase # "dormant")
    /\ ret.isInteractive = (ret.phase \in {"surfaced", "focused", "dissolving"})
    /\ ret.isFocused = (ret.phase = "focused")
    /\ ret.opacity = getPhaseOpacity(ret.phase)
    /\ ret.isVisible = isPhaseVisible(ret.phase)
    /\ ret.isInteractive = isPhaseInteractive(ret.phase)

\* the machine has rendered dissolving: half opaque, visible, interactive
C10_Witness ==
    /\ ret.phase = "dissolving"
    /\ ret.opacity = 5
    /\ ret.relevanceScore = 0
    /\ ret.isInteractive
    /\ nRequests > 0

\* C11: a request on a pair (current, target) outside the transition table,
\* made when the machine's effects have run, sets the target phase directly,
\* schedules nothing and leaves no label: lastTransition is null afterwards.
C11_UnlistedHasNoLabel ==
    [][ (IsRequest /\ phase = previousPhaseRef
            /\ ClaimedEffect(phase, lastCall'.target).label = "any")
        => /\ phase' = lastCall'.target
           /\ { t \in timers' : t.kind = "transition" } = {}
           /\ lastTransition' = null ]_vars

\* C13: a machine changes phase without a request exactly when it was
\* created with autoSurface at dormant. Before any request, such a machine is
\* in dormant with the surface-delay timer pending, in warming with the
\* half-duration timer pending, or in surfaced with nothing pending; its
\* phase only steps dormant -> warming -> surfaced; any other machine keeps
\* its initial phase.
C13_AutoSurface ==
    /\ []((nRequests = 0 /\ phase # initialPhase) =>
              (autoSurface /\ initialPhase = "dormant"))
    /\ []((nRequests = 0 /\ mounted /\ autoSurface /\ initialPhase = "dormant") =>
              \/ /\ phase = "dormant"
                 /\ timers = { Timer(autoTimer, "autoSurface", "warming", surfaceDelay) }
              \/ /\ phase = "warming"
                 /\ \E t \in timers : /\ timers = {t}
                                      /\ t.kind = "autoWarming"
                                      /\ t.target = "surfaced"
                                      /\ t.delay = PHASE_DURATION_MS \div 2
              \/ /\ phase = "surfaced"
                 /\ timers = {})
    /\ [][ (nRequests' = 0 /\ phase' # phase) =>
              \/ (phase = "dormant" /\ phase' = "warming")
              \/ (phase = "warming" /\ phase' = "surfaced") ]_vars

\* the auto-surface has completed without any request and was rendered: the
\* card shows surfaced
C13_Witness ==
    /\ autoSurface
    /\ initialPhase = "dormant"
    /\ nRequests = 0
    /\ mounted
    /\ phase = "surfaced"
    /\ ret.phase = "surfaced"
    /\ timers = {}

\* ------------------------------------------------------- the round trip
\* The sequence of the round trip on a machine created at dormant:
\* surface(), the warming timer fires, focus(), blur(), dissolve(),
\* hibernate(), the hibernate timer fires. The requests are made in this
\* order (the position is the number of calls made so far); timers, renders
\* and effects run as the event loop schedules them.
RoundTripInit == Init /\ initialPhase = "dormant"

RoundTripSurface ==
    /\ nRequests = 0
    /\ phase = "dormant"
    /\ transitionToCall("surface", "surfaced")

RoundTripFocus ==
    /\ nRequests = 1
    /\ phase = "surfaced"
    /\ TransitionTimers = {}
    /\ transitionToCall("focus", "focused")

RoundTripBlur ==
    /\ nRequests = 2
    /\ transitionToCall("blur", "surfaced")

RoundTripDissolve ==
    /\ nRequests = 3
    /\ transitionToCall("dissolve", "dissolving")

RoundTripHibernate ==
    /\ nRequests = 4
    /\ transitionToCall("hibernate", "dormant")

RoundTripNext ==
    \/ RoundTripSurface
    \/ RoundTripFocus
    \/ RoundTripBlur
    \/ RoundTripDissolve
    \/ RoundTripHibernate
    \/ TransitionTimerFires
    \/ AutoSurfaceTimerFires
    \/ AutoWarmingTimerFires
    \/ Render
    \/ NotifyEffect

RoundTripSpec == RoundTripInit /\ [][RoundTripNext]_vars

\* this step is the last one of the round trip: the hibernate timer fires
RoundTripEnds ==
    /\ nRequests = 5
    /\ \E t \in timers : t.kind = "transition" /\ t.target = "dormant" /\ t \notin timers'

\* C12: the round trip ends in the state of the creation: phase dormant,
\* opacity 0, relevanceScore 0, no pending timer, lastTransition null.
C12_RoundTrip ==
    [][ RoundTripEnds =>
          /\ phase' = "dormant"
          /\ getPhaseOpacity(phase') = 0
          /\ relevanceScore(phase') = 0
          /\ timers' = {}
          /\ lastTransition' = null ]_vars

\* C12 as amended: the round trip ends in phase dormant, opacity 0,
\* relevanceScore 0, with no timer of transitionTo pending and with
\* lastTransition 'hibernate' (the label of the last request), not null.
C12_RoundTripKeepsLabel ==
    [][ RoundTripEnds =>
          /\ phase' = "dormant"
          /\ getPhaseOpacity(phase') = 0
          /\ relevanceScore(phase') = 0
          /\ { t \in timers' : t.kind = "transition" } = {}
          /\ lastTransition' = "hibernate" ]_vars

\* the round trip is over: five requests, each one seen by a render before
\* the next, and the machine back in dormant
C12_Witness ==
    /\ nRequests = 5
    /\ lastCall = [name |-> "hibernate", from |-> "dissolving", target |-> "dormant"]
    /\ phase = "dormant"
    /\ ret.phase = "dormant"
    /\ ret.lastTransition = "hibernate"
    /\ ret.opacity = 0
    /\ timers = {}
    /\ notified = [phase |-> "dormant", previousPhase |-> "dissolving"]

\* ------------------------------------------------------- registry claims
\* the registry actions that request a phase
PhaseOps == {"surface", "dissolve", "focus", "blur"}

\* the phase each of them asks for
TargetOf(op) ==
    CASE op = "surface" -> "surfaced"
      [] op = "dissolve" -> "dissolving"
      [] op = "focus" -> "focused"
      [] op = "blur" -> "surfaced"

\* this step is a call of surface, dissolve, focus or blur
IsPhaseCall == nActions' = nActions + 1 /\ lastAction'.op \in PhaseOps

\* C14: surface, dissolve, focus and blur called with an id that is not
\* registered leave the component map (no entry is created), the Session
\* Context and the system status as they were.
C14_UnknownIdTolerance ==
    [][ (IsPhaseCall /\ ~lastAction'.registered) =>
            /\ state'.components = state.components
            /\ lastAction'.id \notin DOMAIN state'.components
            /\ state'.context = state.context
            /\ state'.systemStatus = state.systemStatus
            /\ state'.forensicMode = state.forensicMode ]_vars

\* focus was called with an unregistered id while another id is registered
C14_Witness ==
    /\ lastAction.op = "focus"
    /\ ~lastAction.registered
    /\ lastAction.id \notin DOMAIN state.components
    /\ state.components # EmptyMap

\* C15: surface, dissolve, focus and blur called with an unregistered id
\* leave the length of the Forensic Event log unchanged.
C15_NoEntryForNoOp ==
    [][ (IsPhaseCall /\ ~lastAction'.registered) =>
            Len(forensicLog') = Len(forensicLog) ]_vars

\* C16: on a registered id, whatever the stored phase, the call sets the
\* stored phase to its target in one step and appends exactly one
\* phase_transition event carrying that id and the new phase.
C16_PhaseActions ==
    [][ (IsPhaseCall /\ lastAction'.registered) =>
            LET id == lastAction'.id
                target == TargetOf(lastAction'.op)
                e == forensicLog'[Len(forensicLog')]
            IN  /\ id \in DOMAIN state'.components
                /\ state'.components[id].phase = target
                /\ Len(forensicLog') = Len(forensicLog) + 1
                /\ SubSeq(forensicLog', 1, Len(forensicLog)) = forensicLog
                /\ e.eventType = "phase_transition"
                /\ e.componentId = id
                /\ e.details.phase = target ]_vars

\* blur was called on a registered component that was dormant
C16_Witness ==
    /\ lastAction.op = "blur"
    /\ lastAction.registered
    /\ lastAction.from = "dormant"
    /\ lastAction.id \in DOMAIN state.components
    /\ state.components[lastAction.id].phase = "surfaced"
    /\ Len(forensicLog) = 1

\* the request is an edge of the transition definitions from that phase
RequestIsEdge(op, from) ==
    \/ op = "focus" /\ from = "surfaced"
    \/ op = "blur" /\ from = "focused"
    \/ op = "surface" /\ from \in {"dormant", "dissolving"}
    \/ op = "dissolve" /\ from \in {"surfaced", "focused"}

\* this step is a request on a registered id that is not an edge of the
\* transition definitions from the stored phase
IsNonEdgeCall ==
    /\ IsPhaseCall
    /\ lastAction'.registered
    /\ ~RequestIsEdge(lastAction'.op, lastAction'.from)

\* C17 (as stated): a request that is not an edge of the transition
\* definitions from the current stored phase does not change the stored
\* phase.
C17_RegistryValidates ==
    [][ IsNonEdgeCall =>
            state'.components[lastAction'.id].phase = lastAction'.from ]_vars

\* C17 (amended): the registry does not validate; a request that is not an
\* edge of the transition definitions is applied like any other, the stored
\* phase becomes the requested target and nothing else of the entry but its
\* timestamp changes.
C17_RegistryAppliesNonEdges ==
    [][ IsNonEdgeCall =>
            LET id == lastAction'.id
            IN  /\ state'.components[id].phase = TargetOf(lastAction'.op)
                /\ state'.components[id].lastTransition = state.components[id].lastTransition
                /\ state'.components[id].opacity = state.components[id].opacity
                /\ state'.components[id].relevanceScore
                      = state.components[id].relevanceScore ]_vars

\* focus was applied to a dormant component
C17_Witness ==
    /\ lastAction.op = "focus"
    /\ lastAction.registered
    /\ lastAction.from = "dormant"
    /\ lastAction.id \in DOMAIN state.components
    /\ state.components[lastAction.id].phase = "focused"

\* C18: in every state of the registry, the stored opacity and
\* relevanceScore of each registered component are the values derived from
\* its stored phase.
C18_RegistryDerivedFields ==
    \A id \in DOMAIN state.components :
        /\ state.components[id].opacity = getPhaseOpacity(state.components[id].phase)
        /\ state.components[id].relevanceScore
              = relevanceScore(state.components[id].phase)

\* C19: the log exposed by the provider holds every event appended so far,
\* and a step never shortens it or changes an earlier event.
C19_LogObservable ==
    /\ [](forensicEvents = forensicLog)
    /\ [][ /\ Len(forensicEvents') >= Len(forensicEvents)
           /\ SubSeq(forensicEvents', 1, Len(forensicEvents)) = forensicEvents ]_vars

\* the four fields of an entry that registerComponent sets, apart from the
\* time of the call
Registered(entry) ==
    /\ entry.phase = "dormant"
    /\ entry.opacity = 0
    /\ entry.relevanceScore = 0
    /\ entry.lastTransition = null

\* C20: registerComponent creates or overwrites the entry of its id with
\* phase dormant, opacity 0, relevanceScore 0 and lastTransition null,
\* whatever the entry was before (so twice is as once, and any phase is
\* reset), and leaves every other entry, the Session Context, the status
\* and the forensic log unchanged.
C20_RegisterComponent ==
    [][ (nActions' = nActions + 1 /\ lastAction'.op = "registerComponent") =>
            LET id == lastAction'.id
            IN  /\ DOMAIN state'.components = DOMAIN state.components \cup {id}
                /\ Registered(state'.components[id])
                /\ \A other \in DOMAIN state.components \ {id} :
                       state'.components[other] = state.components[other]
                /\ state'.context = state.context
                /\ state'.systemStatus = state.systemStatus
                /\ state'.forensicMode = state.forensicMode
                /\ forensicLog' = forensicLog
                /\ forensicEvents' = forensicEvents ]_vars

\* a component that was focused has been registered again
C20_Witness ==
    /\ lastAction.op = "registerComponent"
    /\ lastAction.registered
    /\ lastAction.from = "focused"
    /\ lastAction.id \in DOMAIN state.components
    /\ Registered(state.components[lastAction.id])
    /\ Len(forensicLog) = 1

\* this step is a call of the registry action op
IsCall(op) == nActions' = nActions + 1 /\ lastAction'.op = op

\* C21: unregisterComponent(id) removes the entry of id and nothing else;
\* for an id that is not registered the whole state stays as it was, and
\* afterwards the id has no entry.
C21_UnregisterComponent ==
    [][ IsCall("unregisterComponent") =>
            LET id == lastAction'.id
            IN  /\ DOMAIN state'.components = DOMAIN state.components \ {id}
                /\ \A other \in DOMAIN state.components \ {id} :
                       state'.components[other] = state.components[other]
                /\ state'.context = state.context
                /\ state'.systemStatus = state.systemStatus
                /\ state'.forensicMode = state.forensicMode
                /\ forensicLog' = forensicLog
                /\ forensicEvents' = forensicEvents
                /\ (~lastAction'.registered => state' = state) ]_vars

\* one of two registered components has been unregistered
C21_Witness ==
    /\ lastAction.op = "unregisterComponent"
    /\ lastAction.registered
    /\ lastAction.id \notin DOMAIN state.components
    /\ state.components # EmptyMap

\* C22: setContext(partial) makes the Session Context the shallow merge of
\* the old context with partial, leaves components and status unchanged
\* and appends exactly one system_event whose details.updates is partial.
C22_SetContextMerges ==
    [][ IsCall("setContext") =>
            LET partial == lastAction'.arg
                e == forensicLog'[Len(forensicLog')]
            IN  /\ DOMAIN state'.context = DOMAIN state.context \cup DOMAIN partial
                /\ \A k \in DOMAIN state'.context :
                       state'.context[k] = IF k \in DOMAIN partial
                                           THEN partial[k] ELSE state.context[k]
                /\ state'.components = state.components
                /\ state'.systemStatus = state.systemStatus
                /\ Len(forensicLog') = Len(forensicLog) + 1
                /\ SubSeq(forensicLog', 1, Len(forensicLog)) = forensicLog
                /\ e.eventType = "system_event"
                /\ e.details.updates = partial ]_vars

\* the scenario of the context merge: {urgency: 'critical'} on a context
\* with role analyst and urgency normal
C22_Witness ==
    /\ lastAction.op = "setContext"
    /\ lastAction.arg = [urgency |-> "critical"]
    /\ state.context.role = "analyst"
    /\ state.context.urgency = "critical"
    /\ Len(forensicLog) = 1
    /\ forensicLog[1].details.updates = [urgency |-> "critical"]

\* C23: in every state of the registry the top-level forensicMode flag
\* equals the forensicMode field of the Session Context.
C23_ForensicFlagMirror == state.forensicMode = state.context.forensicMode

\* C24: setStatus(status) replaces the system status and changes nothing
\* else; no Forensic Event is appended.
C24_SetStatus ==
    [][ IsCall("setStatus") =>
            /\ state'.systemStatus = lastAction'.arg
            /\ state'.components = state.components
            /\ state'.context = state.context
            /\ state'.forensicMode = state.forensicMode
            /\ forensicLog' = forensicLog
            /\ forensicEvents' = forensicEvents ]_vars

\* the status was replaced while a component was registered and the log
\* held an event
C24_Witness ==
    /\ lastAction.op = "setStatus"
    /\ state.systemStatus = [status |-> "processing", message |-> "Working"]
    /\ state.components # EmptyMap
    /\ Len(forensicLog) = 1

\* C25: toggle flips the forensic flag, and the second of two toggles in a
\* row returns the top-level flag and its mirror in the Session Context to
\* the values they had before the first.
C25_ToggleInvolution ==
    [][ IsCall("toggle") =>
            /\ state'.forensicMode = ~state.forensicMode
            /\ (lastAction.op = "toggle" =>
                    /\ state'.forensicMode = lastAction.arg.top
                    /\ state'.context.forensicMode = lastAction.arg.mirror) ]_vars

\* the hooks built on the context of the provider
Hooks == {"useOrchestrator", "useSystemStatus", "useForensicMode", "useUserContext"}

\* C26: useOrchestrator and the hooks built on it throw when no provider
\* encloses the caller, and only then.
C26_ThrowsOutsideProvider ==
    [][ (nActions' = nActions + 1 /\ lastAction'.op \in Hooks) =>
            (lastAction'.arg.result.threw <=> ~lastAction'.arg.insideProvider) ]_vars

\* useUserContext threw in a component outside any provider, after a
\* component inside one had used a hook
C26_Witness ==
    /\ lastAction.op = "useUserContext"
    /\ ~lastAction.arg.insideProvider
    /\ lastAction.arg.result.threw
    /\ nActions >= 2

\* C29: a stored phase is dormant, surfaced, focused or dissolving, never
\* warming, and an entry that is not dormant becomes dormant only by a
\* registerComponent of its id.
C29_RegistryPhases ==
    /\ [](\A id \in DOMAIN state.components :
              state.components[id].phase
                  \in {"dormant", "surfaced", "focused", "dissolving"})
    /\ [][ \A id \in DOMAIN state.components \cap DOMAIN state'.components :
              (state.components[id].phase # "dormant"
                  /\ state'.components[id].phase = "dormant")
              => (IsCall("registerComponent") /\ lastAction'.id = id) ]_vars

\* a component that had reached dissolving is dormant after being
\* registered again
C29_Witness ==
    /\ lastAction.op = "registerComponent"
    /\ lastAction.registered
    /\ lastAction.from = "dissolving"
    /\ state.components[lastAction.id].phase = "dormant"

\* C27: the branch and the label a transitionTo call chooses are the ones
\* for the phase the machine is in when the call is made, also when that
\* phase has not been rendered and notified yet (from surfaced, focus()
\* and then blur() end in surfaced with the label blur).
C27_DecidesOnCurrentPhase ==
    [][ IsRequest =>
          LET b == TransitionBranch(phase, lastCall'.target)
          IN  /\ phase' = b.phase
              /\ b.transition # "keep" => lastTransition' = b.transition ]_vars

\* the pending timers of the first and of the second machine
OwnTimers == { t \in timers : t.kind = "transition" }

SiblingTimers == { t \in timers : t.kind = "siblingTransition" }

\* C30: a phase action, registration or unregistration for one id leaves
\* the entry of every other id as it was; a request or a timer of one
\* usePhase machine leaves the state of the other machine as it was and
\* all its timers pending.
C30_Independent ==
    [][ /\ (nActions' = nActions + 1) =>
               \A id \in DOMAIN state.components \ {lastAction'.id} :
                   /\ id \in DOMAIN state'.components
                   /\ state'.components[id] = state.components[id]
        /\ (nRequests' # nRequests \/ OwnTimers \ timers' # {}) =>
               /\ sibling' = sibling
               /\ SiblingTimers \subseteq timers'
        /\ (sibling'.calls # sibling.calls \/ SiblingTimers \ timers' # {}) =>
               /\ phase' = phase
               /\ lastTransition' = lastTransition
               /\ previousPhaseRef' = previousPhaseRef
               /\ transitionTimeoutRef' = transitionTimeoutRef
               /\ OwnTimers \subseteq timers' ]_vars

\* dissolve() on the first machine has cancelled its own timer while the
\* timer of the second machine is still pending
C30_Witness ==
    /\ lastCall.name = "dissolve"
    /\ lastCall.from = "warming"
    /\ OwnTimers = {}
    /\ SiblingTimers # {}
    /\ sibling.phase = "warming"

\* the panel is in the state that matches isOpen: surfaced or focused and
\* rendered, or dormant with nothing rendered
PanelMatches ==
    IF isOpen
    THEN phase \in {"surfaced", "focused"} /\ ret.phase = phase /\ ret.isVisible
    ELSE phase = "dormant" /\ ret.phase = "dormant" /\ ~ret.isVisible

\* C28: once isOpen has stopped changing, the panel gets to the state that
\* matches it and stays there.
C28_PanelFollowsIsOpen == <>[]PanelMatches

\* isOpen became true while the panel was dissolving, and the panel has
\* settled surfaced
C28_Witness ==
    /\ isOpen
    /\ lastToggle.phase = "dissolving"
    /\ PanelMatches
    /\ timers = {}
    /\ ~effectPending

====
